---- MODULE Spec2Model ----
(***************************************************************************)
(* RebbleOS rcore/qemu.c: the QEMU serial link.  A worker task drains the  *)
(* transport into the shared protocol receive buffer, decodes framed       *)
(* packets and dispatches them to endpoint handlers; qemu_send_data and    *)
(* qemu_write emit bytes on the same transport under _qemu_mutex.          *)
(***************************************************************************)
EXTENDS Integers, Sequences, FiniteSets, TLC

\* ------------------------------------------------------------------ bounds
\* Scaled-down QEMU_MAX_DATA_LEN and receive-buffer capacity (qemu.h and
\* protocol.c are not part of the sources at hand).
MaxDataLen == 6
RxBufSize == 24
\* Calls an application context makes to qemu_send_data / qemu_write, and
\* replies sent from inside endpoint handlers.
MaxAppCalls == 1
MaxWrCalls == 1
MaxReplies == 1
\* Bursts in which the host delivers its bytes.
MaxBursts == 3

\* --------------------------------------------------------------- constants
QEMU_HEADER_SIGNATURE == 65261
QEMU_FOOTER_SIGNATURE == 48879
QEMU_MAX_DATA_LEN == MaxDataLen
RX_BUFFER_SIZE == RxBufSize
QemuProtocol_SPP == 1
\* A protocol id with no entry in qemu_endpoints.
UnknownProtocol == 2
\* sizeof(QemuCommChannelHeader): three uint16_t; sizeof(QemuCommChannelFooter): one.
HeaderSize == 6
FooterSize == 2
\* hw_qemu_read(buf, 64)
ReadChunk == 64
U16 == 65536

PACKET_PROCESSED == "PACKET_PROCESSED"
PACKET_MORE_DATA_REQD == "PACKET_MORE_DATA_REQD"
PACKET_INVALID == "PACKET_INVALID"
PACKET_BUFFER_HAS_DATA == "PACKET_BUFFER_HAS_DATA"

\* ------------------------------------------------------------ byte helpers
Min(a, b) == IF a < b THEN a ELSE b

\* htons / ntohs on the little-endian target: swap the two bytes of a uint16_t.
htons(x) == ((x % U16) % 256) * 256 + ((x % U16) \div 256)
ntohs(x) == htons(x)

\* The memory image of a uint16_t object (little-endian host), as hw_qemu_write
\* sees it through a (const void *) pointer.
MemU16(v) == <<v % 256, v \div 256>>

\* A uint16_t loaded from buf at 1-based index i (little-endian host).
LoadU16(buf, i) == buf[i] + 256 * buf[i + 1]

SubSeqFrom(s, n) == SubSeq(s, n, Len(s))

\* ------------------------------------------------------------ frame decoder
\* _qemu_read_header: the header is read from the front of the receive buffer
\* whatever the used length is.
qemu_read_header(buf) ==
    [signature |-> ntohs(LoadU16(buf, 1)),
     protocol  |-> ntohs(LoadU16(buf, 3)),
     len       |-> ntohs(LoadU16(buf, 5))]

\* protocol_find_endpoint_handler(protocol, qemu_endpoints)
protocol_find_endpoint_handler(protocol) ==
    IF protocol = QemuProtocol_SPP THEN "spp_handler" ELSE "NULL"

\* Mutant: the payload is not moved to the front of the buffer.
MemmovePayloadNone(buf, len) == buf

\* memmove(buf, buf + sizeof(QemuCommChannelHeader), header.len)
MemmovePayload(buf, len) ==
    [i \in DOMAIN buf |-> IF i <= len THEN buf[i + HeaderSize] ELSE buf[i]]

\* protocol_rx_buffer_pointer_adjust(delta)
protocol_rx_buffer_pointer_adjust(u, delta) == u + delta

\* Mutant: the length check off by one, rejecting the maximum itself.
LenTooBigOffByOne(len) == len >= QEMU_MAX_DATA_LEN

\* The header length check of _qemu_handle_packet (line 193).
LenTooBig(len) == len > QEMU_MAX_DATA_LEN

\* Mutant: the footer signature is not compared.
FooterBadNever(buf, len) == FALSE

\* The footer check of _qemu_handle_packet (lines 214-219).
FooterBad(buf, len) ==
    ntohs(LoadU16(buf, len + HeaderSize + 1)) # QEMU_FOOTER_SIGNATURE

\* _qemu_handle_packet up to the point where the handler is called (lines
\* 184-231).  stage names the statement that returned; lookedUp and footerRead
\* record whether the handler lookup and the footer read were executed.
qemu_handle_packet_pre(buf, u) ==
    LET header == qemu_read_header(buf)
        base == [hdr |-> header, buf |-> buf, used |-> u,
                 lookedUp |-> FALSE, footerRead |-> FALSE]
    IN  IF header.signature # QEMU_HEADER_SIGNATURE
        THEN base @@ [stage |-> "bad_signature", rv |-> PACKET_INVALID]
        ELSE IF LenTooBig(header.len)
        THEN base @@ [stage |-> "bad_size", rv |-> PACKET_INVALID]
        ELSE IF u < header.len + HeaderSize + FooterSize
        THEN base @@ [stage |-> "incomplete", rv |-> PACKET_MORE_DATA_REQD]
        ELSE IF FooterBad(buf, header.len)
        THEN [base EXCEPT !.lookedUp = TRUE, !.footerRead = TRUE]
                 @@ [stage |-> "bad_footer", rv |-> PACKET_INVALID]
        ELSE [base EXCEPT !.lookedUp = TRUE, !.footerRead = TRUE,
                          !.buf = MemmovePayload(buf, header.len),
                          !.used = protocol_rx_buffer_pointer_adjust(
                                       u, -(FooterSize + HeaderSize))]
                 @@ [stage |-> "validated", rv |-> "none"]

\* The return value computed after the handler returned (lines 237-241).
qemu_handle_packet_post(u, len) ==
    IF u > len THEN PACKET_BUFFER_HAS_DATA ELSE PACKET_PROCESSED

\* ------------------------------------------------------- transmit encoding
\* Mutant: the header length does not count the length and endpoint fields.
SendHeaderBytesBare(len) ==
    MemU16(htons(QEMU_HEADER_SIGNATURE)) \o MemU16(htons(QemuProtocol_SPP))
        \o MemU16(htons(len))

\* The pieces qemu_send_data hands to hw_qemu_write, in order (lines 82-103).
SendHeaderBytes(len) ==
    MemU16(htons(QEMU_HEADER_SIGNATURE)) \o MemU16(htons(QemuProtocol_SPP))
        \o MemU16(htons(len + 4))
SendLenBytes(len) == MemU16(htons(len))
SendEndpointBytes(endpoint) == MemU16(htons(endpoint))
SendFooterBytes == MemU16(htons(QEMU_FOOTER_SIGNATURE))

\* ------------------------------------------------------------- host input
\* What the host may put on the link: framed packets, sound and damaged.
Frame(protocol, len, payload, footer) ==
    <<QEMU_HEADER_SIGNATURE \div 256, QEMU_HEADER_SIGNATURE % 256,
      protocol \div 256, protocol % 256, len \div 256, len % 256>>
        \o payload \o <<footer \div 256, footer % 256>>

MaxPayload == [i \in 1..QEMU_MAX_DATA_LEN |-> 1]
Payloads == {<< >>, <<7>>, MaxPayload}

\* Complete frames with a sound header and footer and a registered protocol.
ValidFrames ==
    {Frame(QemuProtocol_SPP, Len(p), p, QEMU_FOOTER_SIGNATURE) : p \in Payloads}
\* The same with the last footer byte damaged.
BadFooterFrames ==
    {Frame(QemuProtocol_SPP, Len(p), p, QEMU_FOOTER_SIGNATURE - 1) : p \in {<<7>>}}
\* A sound signature with a declared length above the maximum: the header alone.
OversizeFrames ==
    {SubSeq(Frame(QemuProtocol_SPP, QEMU_MAX_DATA_LEN + 1, << >>,
                  QEMU_FOOTER_SIGNATURE), 1, HeaderSize)}
\* A sound frame for a protocol with no handler.
UnknownFrames ==
    {Frame(UnknownProtocol, 0, << >>, QEMU_FOOTER_SIGNATURE)}

Items == ValidFrames \cup BadFooterFrames \cup OversizeFrames \cup UnknownFrames
ShortFrames == {f \in ValidFrames : Len(f) <= HeaderSize + FooterSize + 1}
LongFrames == {f \in ValidFrames : Len(f) = HeaderSize + FooterSize + QEMU_MAX_DATA_LEN}
\* One frame of any kind, two short sound frames back to back, two long ones,
\* which together exceed the receive buffer, or two oversize ones.
Streams ==
    Items \cup {a \o b : a \in ShortFrames, b \in ShortFrames}
          \cup {a \o b : a \in LongFrames, b \in LongFrames}
          \cup {a \o b : a \in OversizeFrames, b \in OversizeFrames}

\* Streams over which application senders run concurrently with the worker.
TxStreams == {Frame(QemuProtocol_SPP, 1, <<7>>, QEMU_FOOTER_SIGNATURE)}

\* Arguments of qemu_send_data: the payload is data followed by zeros zero
\* bytes, and len is its length.
SendArgs ==
    {[endpoint |-> 7, data |-> << >>, zeros |-> 0],
     [endpoint |-> 258, data |-> <<9, 10>>, zeros |-> 0]}
ReplyArgs == {[endpoint |-> 7, data |-> <<9>>, zeros |-> 0]}
ArgLen(a) == Len(a.data) + a.zeros
Zeros(n) == [i \in 1..n |-> 0]
ArgData(a) == a.data \o Zeros(a.zeros)
WriteArgs == {<<5>>}

\* ------------------------------------------------------------------- state
VARIABLES
    initPc,       \* position of qemu_init
    is_qemu,      \* static int is_qemu
    qemu_mutex,   \* _qemu_mutex: "NULL", "free" or the holding context
    qemu_sem,     \* _qemu_sem: "NULL", "empty" or "given"
    irqEnabled,   \* the transport's receive interrupt
    stream,       \* everything the host sends in this run
    hostPending,  \* bytes the host has not put on the link yet
    rxfifo,       \* bytes pending in the transport, not read yet
    rxbuf,        \* memory of the protocol receive buffer
    used,         \* protocol_get_rx_buf_used()
    buf_lock,     \* who holds the receive buffer's lock: "free" or "worker"
    wpc,          \* position of _qemu_thread
    done,         \* _qemu_thread's local done
    rv,           \* last return value of _qemu_handle_packet
    hdr,          \* _qemu_handle_packet's local header
    stage,        \* the statement at which the last decode returned
    dispatched,   \* packets handed to handlers, in order
    spc,          \* position of each qemu_send_data caller
    sarg,         \* arguments of each qemu_send_data call
    wrpc,         \* position of the qemu_write caller
    wire,         \* hw_qemu_write calls, in order: each wrote bytes, then
                  \* zeros zero bytes
    budget,       \* calls left to the application contexts and handlers
    crash,        \* "none", why the firmware stopped, or "ub_continued"
    assertsOn,    \* whether assert() is compiled in
    lastHw,       \* the last transport access: who made it, who held the mutex
                  \* then, and where in qemu_send_data that holder was
    cyc           \* bookkeeping of the current wake cycle of the worker

vars == <<initPc, is_qemu, qemu_mutex, qemu_sem, irqEnabled, stream, hostPending,
          rxfifo, rxbuf, used, buf_lock, wpc, done, rv, hdr, stage, dispatched, spc, sarg,
          wrpc,
          wire, budget, crash, assertsOn, lastHw, cyc>>

initVars == <<initPc, is_qemu>>
hostVars == <<stream, hostPending>>
bufVars == <<rxbuf, used, buf_lock>>
workerVars == <<wpc, done, rv, hdr, stage, dispatched, cyc>>
sendVars == <<spc, sarg, wrpc>>

SendCtx == {"app", "worker"}
NoArg == [endpoint |-> 0, data |-> << >>, zeros |-> 0]
NoHdr == [signature |-> 0, protocol |-> 0, len |-> 0]
NoCyc == [first |-> << >>, used0 |-> 0, disp0 |-> 0, reads |-> 0]
NoHw == [ctx |-> "none", holder |-> "none", at |-> "none"]

\* Either the host's bytes come in several bursts and nothing is sent, or they
\* come at once while applications and handlers send.
RxBudget == [app |-> 0, wr |-> 0, reply |-> 0, bursts |-> MaxBursts]
TxBudget == [app |-> MaxAppCalls, wr |-> MaxWrCalls, reply |-> MaxReplies, bursts |-> 1]

Init ==
    /\ initPc = "off"
    /\ is_qemu = 0
    /\ qemu_mutex = "NULL"
    /\ qemu_sem = "NULL"
    /\ irqEnabled = FALSE
    /\ \/ stream \in Streams /\ budget = RxBudget
       \/ stream \in TxStreams /\ budget = TxBudget
    /\ hostPending = stream
    /\ rxfifo = << >>
    /\ rxbuf = [i \in 1..RX_BUFFER_SIZE |-> 0]
    /\ used = 0
    /\ buf_lock = "free"
    /\ wpc = "none"
    /\ done = FALSE
    /\ rv = "none"
    /\ hdr = NoHdr
    /\ stage = "none"
    /\ dispatched = << >>
    /\ spc = [c \in SendCtx |-> "idle"]
    /\ sarg = [c \in SendCtx |-> NoArg]
    /\ wrpc = "idle"
    /\ wire = << >>
    /\ crash = "none"
    /\ assertsOn \in BOOLEAN
    /\ lastHw = NoHw
    /\ cyc = NoCyc

\* The firmware runs until it faults; "ub_continued" marks a run that went on
\* after undefined behaviour.
Running == crash \in {"none", "ub_continued"}

\* ---------------------------------------------------------------- qemu_init
\* Line 44.
QemuInitFlag ==
    /\ Running /\ initPc = "off"
    /\ is_qemu' = 1
    /\ initPc' = "hw_init"
    /\ UNCHANGED <<qemu_mutex, qemu_sem, irqEnabled, hostVars, rxfifo, bufVars,
                   workerVars, sendVars, wire, budget, crash, assertsOn, lastHw>>

\* Line 46: hw_qemu_init arms the receive interrupt.
QemuInitHw ==
    /\ Running /\ initPc = "hw_init"
    /\ irqEnabled' = TRUE
    /\ initPc' = "mutex"
    /\ UNCHANGED <<is_qemu, qemu_mutex, qemu_sem, hostVars, rxfifo, bufVars,
                   workerVars, sendVars, wire, budget, crash, assertsOn, lastHw>>

\* Line 47.
QemuInitMutex ==
    /\ Running /\ initPc = "mutex"
    /\ qemu_mutex' = "free"
    /\ initPc' = "task"
    /\ UNCHANGED <<is_qemu, qemu_sem, irqEnabled, hostVars, rxfifo, bufVars,
                   workerVars, sendVars, wire, budget, crash, assertsOn, lastHw>>

\* Lines 48-51: the worker exists from here on and may run at once.
QemuInitTask ==
    /\ Running /\ initPc = "task"
    /\ wpc' = "take"
    /\ initPc' = "sem"
    /\ UNCHANGED <<is_qemu, qemu_mutex, qemu_sem, irqEnabled, hostVars, rxfifo,
                   bufVars, done, rv, hdr, stage, dispatched, cyc, sendVars, wire,
                   budget, crash, assertsOn, lastHw>>

\* Line 53.
QemuInitSem ==
    /\ Running /\ initPc = "sem"
    /\ qemu_sem' = "empty"
    /\ initPc' = "done"
    /\ UNCHANGED <<is_qemu, qemu_mutex, irqEnabled, hostVars, rxfifo, bufVars,
                   workerVars, sendVars, wire, budget, crash, assertsOn, lastHw>>

\* ------------------------------------------------------- host and interrupt
\* The host puts the next n bytes on the link, which is up once hw_qemu_init
\* ran; its last burst carries all that is left.
Arrive ==
    /\ hostPending # << >> /\ budget.bursts > 0
    /\ initPc \notin {"off", "hw_init"}
    /\ \E n \in 1..Len(hostPending) :
          /\ budget.bursts = 1 => n = Len(hostPending)
          /\ rxfifo' = rxfifo \o SubSeq(hostPending, 1, n)
          /\ hostPending' = SubSeqFrom(hostPending, n + 1)
    /\ budget' = [budget EXCEPT !.bursts = @ - 1]
    /\ UNCHANGED <<initVars, qemu_mutex, qemu_sem, irqEnabled, stream, bufVars,
                   workerVars, sendVars, wire, crash, assertsOn, lastHw>>

\* The receive interrupt: the hardware handler masks the interrupt and calls
\* qemu_rx_started_isr (lines 131-138), which posts _qemu_sem.  A give on a
\* semaphore that was never created either faults or has no effect.
RxIsr ==
    /\ Running /\ irqEnabled /\ rxfifo # << >>
    /\ irqEnabled' = FALSE
    /\ \/ /\ qemu_sem # "NULL"
          /\ qemu_sem' = "given"
          /\ UNCHANGED crash
       \/ /\ qemu_sem = "NULL"
          /\ crash' \in {"ub_continued", "null_sem_give"}
          /\ UNCHANGED qemu_sem
    /\ UNCHANGED <<initVars, qemu_mutex, hostVars, rxfifo, bufVars, workerVars,
                   sendVars, wire, budget, assertsOn, lastHw>>

\* A transport access by context c, as lastHw records it.
HwAccess(c) ==
    [ctx |-> c, holder |-> qemu_mutex,
     at |-> IF qemu_mutex \in SendCtx THEN spc[qemu_mutex] ELSE "none"]

\* ------------------------------------------------------------ receive buffer
\* hw_qemu_read(buf, max): up to max of the bytes pending in the transport.
hw_qemu_read(fifo, max) ==
    [bytes |-> SubSeq(fifo, 1, Min(max, Len(fifo))),
     rest  |-> SubSeqFrom(fifo, Min(max, Len(fifo)) + 1)]

\* protocol_rx_buffer_append: fails, changing nothing, when the bytes do not fit.
protocol_rx_buffer_append(buf, u, bytes) ==
    IF u + Len(bytes) > RX_BUFFER_SIZE
    THEN [status |-> -1, buf |-> buf, used |-> u]
    ELSE [status |-> Len(bytes),
          buf |-> [i \in DOMAIN buf |->
                     IF i > u /\ i <= u + Len(bytes) THEN bytes[i - u] ELSE buf[i]],
          used |-> u + Len(bytes)]

\* protocol_rx_buffer_reset: the used length drops to 0; memory keeps its bytes.
protocol_rx_buffer_reset == 0

\* Lines 153-157 of _qemu_thread.
ThreadAppend(buf, u, bytes, d) ==
    LET a == protocol_rx_buffer_append(buf, u, bytes)
    IN  IF Len(bytes) # 0 /\ a.status < 0
        THEN [buf |-> buf, used |-> protocol_rx_buffer_reset, done |-> TRUE]
        ELSE IF Len(bytes) # 0
        THEN [buf |-> a.buf, used |-> a.used, done |-> d]
        ELSE [buf |-> buf, used |-> u, done |-> d]

\* Lines 161-166 of _qemu_thread: what the return value does to done and the buffer.
ThreadCheck(r, u, d) ==
    IF r = PACKET_PROCESSED \/ r = PACKET_MORE_DATA_REQD
    THEN [used |-> u, done |-> TRUE]
    ELSE IF r = PACKET_INVALID
    THEN [used |-> protocol_rx_buffer_reset, done |-> TRUE]
    ELSE [used |-> u, done |-> d]

\* ------------------------------------------------------------- _qemu_thread
\* Line 146: xSemaphoreTake(_qemu_sem, portMAX_DELAY).  A take on a semaphore
\* that was never created either faults or returns at once.
ThreadTake ==
    /\ Running /\ wpc = "take"
    /\ \/ /\ qemu_sem = "given"
          /\ qemu_sem' = "empty"
          /\ wpc' = "read"
          /\ UNCHANGED crash
       \/ /\ qemu_sem = "NULL"
          /\ \/ crash' = "null_sem_take" /\ UNCHANGED wpc
             \/ wpc' = "read" /\ crash' = "ub_continued"
          /\ UNCHANGED qemu_sem
    /\ done' = FALSE
    /\ cyc' = [first |-> << >>, used0 |-> used, disp0 |-> Len(dispatched), reads |-> 0]
    /\ UNCHANGED <<initVars, qemu_mutex, irqEnabled, hostVars, rxfifo, bufVars, rv,
                   hdr, stage, dispatched, sendVars, wire, budget, assertsOn, lastHw>>

\* Lines 151-157: hw_qemu_read, called without _qemu_mutex, and the append.
ThreadRead ==
    /\ Running /\ wpc = "read"
    /\ LET r == hw_qemu_read(rxfifo, ReadChunk)
           a == ThreadAppend(rxbuf, used, r.bytes, done)
       IN  /\ rxfifo' = r.rest
           /\ rxbuf' = a.buf
           /\ used' = a.used
           /\ done' = a.done
           /\ cyc' = [cyc EXCEPT !.reads = Min(@ + 1, 2),
                                 !.first = IF cyc.reads = 0 THEN r.bytes ELSE @]
    /\ lastHw' = HwAccess("worker")
    /\ wpc' = "decode"
    /\ UNCHANGED <<initVars, qemu_mutex, qemu_sem, irqEnabled, hostVars, rv, hdr,
                   stage, dispatched, sendVars, wire, budget, crash, assertsOn,
                   buf_lock>>

\* protocol_buffer_lock / protocol_buffer_unlock, called by the worker.
protocol_buffer_lock == "worker"
protocol_buffer_unlock == "free"

\* Mutant: the buffer is unlocked only after the handler has returned.
LockAtHandlerHeld == protocol_buffer_lock

\* The buffer lock when the handler is called at line 235: taken at line 222
\* and released at line 231.
LockAtHandler == protocol_buffer_unlock

\* Line 159 into _qemu_handle_packet, lines 184-231: validation, compaction under
\* the buffer lock, and the assert, which stops the firmware, the lock still
\* held, when compiled in.
ThreadDecode ==
    /\ Running /\ wpc = "decode"
    /\ LET r == qemu_handle_packet_pre(rxbuf, used)
       IN  /\ hdr' = r.hdr
           /\ stage' = r.stage
           /\ rxbuf' = r.buf
           /\ used' = r.used
           /\ rv' = r.rv
           /\ IF r.stage # "validated"
              THEN wpc' = "check" /\ UNCHANGED <<crash, buf_lock>>
              ELSE IF assertsOn /\ r.used # r.hdr.len
              THEN /\ crash' = "assert"
                   /\ buf_lock' = protocol_buffer_lock
                   /\ UNCHANGED wpc
              ELSE /\ wpc' = "handler"
                   /\ buf_lock' = LockAtHandler
                   /\ UNCHANGED crash
    /\ UNCHANGED <<initVars, qemu_mutex, qemu_sem, irqEnabled, hostVars, rxfifo,
                   done, dispatched, cyc, sendVars, wire, budget, assertsOn, lastHw>>

\* The packet of line 233, packet_create_with_data(0, buf, header.len): endpoint
\* 0 and header.len bytes at the front of the buffer; the handler it goes to is
\* the one registered for header.protocol.
PacketOf(buf, h) ==
    [endpoint |-> 0, protocol |-> h.protocol, data |-> SubSeq(buf, 1, h.len)]

\* Lines 233-235: handler(p).  A registered handler gets the packet and either
\* returns or first sends a reply through qemu_send_data; calling the NULL
\* handler of an unknown protocol either faults or comes back having done nothing.
ThreadHandler ==
    /\ Running /\ wpc = "handler"
    /\ \/ /\ protocol_find_endpoint_handler(hdr.protocol) # "NULL"
          /\ dispatched' = Append(dispatched, PacketOf(rxbuf, hdr))
          /\ \/ /\ wpc' = "post"
                /\ UNCHANGED <<spc, sarg, budget>>
             \/ /\ budget.reply > 0
                /\ \E a \in ReplyArgs :
                      sarg' = [sarg EXCEPT !["worker"] = a]
                /\ spc' = [spc EXCEPT !["worker"] = "check"]
                /\ budget' = [budget EXCEPT !.reply = @ - 1]
                /\ wpc' = "reply"
          /\ UNCHANGED crash
       \/ /\ protocol_find_endpoint_handler(hdr.protocol) = "NULL"
          /\ \/ crash' = "null_handler" /\ UNCHANGED wpc
             \/ wpc' = "post" /\ crash' = "ub_continued"
          /\ UNCHANGED <<dispatched, spc, sarg, budget>>
    /\ UNCHANGED <<initVars, qemu_mutex, qemu_sem, irqEnabled, hostVars, rxfifo,
                   bufVars, done, rv, hdr, stage, cyc, wrpc, wire, assertsOn, lastHw>>

\* The handler's qemu_send_data call has returned.
ThreadReplyDone ==
    /\ Running /\ wpc = "reply" /\ spc["worker"] = "return"
    /\ spc' = [spc EXCEPT !["worker"] = "idle"]
    /\ sarg' = [sarg EXCEPT !["worker"] = NoArg]
    /\ wpc' = "post"
    /\ UNCHANGED <<initVars, qemu_mutex, qemu_sem, irqEnabled, hostVars, rxfifo,
                   bufVars, done, rv, hdr, stage, dispatched, cyc, wrpc, wire,
                   budget, crash, assertsOn, lastHw>>

\* Lines 237-241.
ThreadPost ==
    /\ Running /\ wpc = "post"
    /\ rv' = qemu_handle_packet_post(used, hdr.len)
    /\ stage' = "returned"
    /\ wpc' = "check"
    /\ UNCHANGED <<initVars, qemu_mutex, qemu_sem, irqEnabled, hostVars, rxfifo,
                   bufVars, done, hdr, dispatched, cyc, sendVars, wire, budget,
                   crash, assertsOn, lastHw>>

\* Lines 161-167, then the loop test of line 149.
ThreadCheckRv ==
    /\ Running /\ wpc = "check"
    /\ LET c == ThreadCheck(rv, used, done)
       IN  /\ used' = c.used
           /\ done' = c.done
           /\ wpc' = IF c.done THEN "irq" ELSE "read"
    /\ UNCHANGED <<initVars, qemu_mutex, qemu_sem, irqEnabled, hostVars, rxfifo,
                   rxbuf, buf_lock, rv, hdr, stage, dispatched, cyc, sendVars, wire,
                   budget, crash, assertsOn, lastHw>>

\* Line 169: hw_qemu_irq_enable, then back to line 146.
ThreadIrqEnable ==
    /\ Running /\ wpc = "irq"
    /\ irqEnabled' = TRUE
    /\ wpc' = "take"
    /\ rv' = "none"
    /\ hdr' = NoHdr
    /\ stage' = "none"
    /\ cyc' = NoCyc
    /\ UNCHANGED <<initVars, qemu_mutex, qemu_sem, hostVars, rxfifo, bufVars, done,
                   dispatched, sendVars, wire, budget, crash, assertsOn, lastHw>>

\* ------------------------------------------------------------ qemu_send_data
\* Application contexts run once qemu_init is over, or on a device on which it
\* never runs.
AppsRun == initPc \in {"off", "done"}

\* An application context calls qemu_send_data(endpoint, data, len).
SendCall ==
    /\ Running /\ AppsRun /\ spc["app"] = "idle" /\ budget.app > 0
    /\ \E a \in SendArgs : sarg' = [sarg EXCEPT !["app"] = a]
    /\ spc' = [spc EXCEPT !["app"] = "check"]
    /\ budget' = [budget EXCEPT !.app = @ - 1]
    /\ UNCHANGED <<initVars, qemu_mutex, qemu_sem, irqEnabled, hostVars, rxfifo,
                   bufVars, workerVars, wrpc, wire, crash, assertsOn, lastHw>>

\* Mutant: the is_qemu test is missing.
SendGateOpen(q) == "take"

\* Lines 78-79: where qemu_send_data goes after the is_qemu test.
SendGate(q) == IF q = 0 THEN "return" ELSE "take"

SendCheck(c) ==
    /\ Running /\ spc[c] = "check"
    /\ spc' = [spc EXCEPT ![c] = SendGate(is_qemu)]
    /\ UNCHANGED <<initVars, qemu_mutex, qemu_sem, irqEnabled, hostVars, rxfifo,
                   bufVars, workerVars, sarg, wrpc, wire, budget, crash, assertsOn,
                   lastHw>>

\* Mutant: the take does not wait for the holder to give the mutex.
MutexTakeHeld(c) ==
    /\ qemu_mutex' = c
    /\ UNCHANGED crash

\* xSemaphoreTake(_qemu_mutex, portMAX_DELAY): blocks while another context
\* holds the mutex (it is not recursive); faults on a mutex never created.
MutexTake(c) ==
    \/ /\ qemu_mutex = "free"
       /\ qemu_mutex' = c
       /\ UNCHANGED crash
    \/ /\ qemu_mutex = "NULL"
       /\ crash' = "null_mutex"
       /\ UNCHANGED qemu_mutex

\* Line 81.
SendTake(c) ==
    /\ Running /\ spc[c] = "take"
    /\ MutexTake(c)
    /\ spc' = [spc EXCEPT ![c] = "header"]
    /\ UNCHANGED <<initVars, qemu_sem, irqEnabled, hostVars, rxfifo, bufVars,
                   workerVars, sarg, wrpc, wire, budget, assertsOn, lastHw>>

\* One hw_qemu_write call of context c.
HwWrite(c, piece, bytes, zeros) ==
    /\ wire' = Append(wire, [by |-> c, piece |-> piece, bytes |-> bytes,
                             zeros |-> zeros])
    /\ lastHw' = HwAccess(c)

SendPieces == <<"header", "len", "endpoint", "data", "footer", "give">>
NextPiece(p) == SendPieces[(CHOOSE i \in 1..5 : SendPieces[i] = p) + 1]

\* The bytes of each hw_qemu_write of qemu_send_data (lines 82-103); len is the
\* uint16_t argument, the length of data.
SendBytes(p, a) ==
    CASE p = "header"   -> SendHeaderBytes(ArgLen(a) % U16)
      [] p = "len"      -> SendLenBytes(ArgLen(a) % U16)
      [] p = "endpoint" -> SendEndpointBytes(a.endpoint)
      [] p = "data"     -> a.data
      [] p = "footer"   -> SendFooterBytes

\* Lines 86, 90, 94, 97 and 103.
SendWrite(c) ==
    /\ Running /\ spc[c] \in {"header", "len", "endpoint", "data", "footer"}
    /\ HwWrite(c, spc[c], SendBytes(spc[c], sarg[c]),
               IF spc[c] = "data" THEN sarg[c].zeros ELSE 0)
    /\ spc' = [spc EXCEPT ![c] = NextPiece(spc[c])]
    /\ UNCHANGED <<initVars, qemu_mutex, qemu_sem, irqEnabled, hostVars, rxfifo,
                   bufVars, workerVars, sarg, wrpc, budget, crash, assertsOn>>

\* Line 105.
SendGive(c) ==
    /\ Running /\ spc[c] = "give"
    /\ qemu_mutex' = "free"
    /\ spc' = [spc EXCEPT ![c] = "return"]
    /\ UNCHANGED <<initVars, qemu_sem, irqEnabled, hostVars, rxfifo, bufVars,
                   workerVars, sarg, wrpc, wire, budget, crash, assertsOn, lastHw>>

\* The application's call has returned.
SendReturn ==
    /\ Running /\ spc["app"] = "return"
    /\ spc' = [spc EXCEPT !["app"] = "idle"]
    /\ sarg' = [sarg EXCEPT !["app"] = NoArg]
    /\ UNCHANGED <<initVars, qemu_mutex, qemu_sem, irqEnabled, hostVars, rxfifo,
                   bufVars, workerVars, wrpc, wire, budget, crash, assertsOn, lastHw>>

\* ---------------------------------------------------------------- qemu_write
\* Another context calls qemu_write(buffer, len) on the running link.
WriteCall ==
    /\ Running /\ initPc = "done" /\ wrpc = "idle" /\ budget.wr > 0
    /\ wrpc' = "take"
    /\ budget' = [budget EXCEPT !.wr = @ - 1]
    /\ UNCHANGED <<initVars, qemu_mutex, qemu_sem, irqEnabled, hostVars, rxfifo,
                   bufVars, workerVars, spc, sarg, wire, crash, assertsOn, lastHw>>

\* Line 69.
WriteTake ==
    /\ Running /\ wrpc = "take"
    /\ MutexTake("wr")
    /\ wrpc' = "write"
    /\ UNCHANGED <<initVars, qemu_sem, irqEnabled, hostVars, rxfifo, bufVars,
                   workerVars, spc, sarg, wire, budget, assertsOn, lastHw>>

\* Line 70.
WriteWrite ==
    /\ Running /\ wrpc = "write"
    /\ \E b \in WriteArgs : HwWrite("wr", "raw", b, 0)
    /\ wrpc' = "give"
    /\ UNCHANGED <<initVars, qemu_mutex, qemu_sem, irqEnabled, hostVars, rxfifo,
                   bufVars, workerVars, spc, sarg, budget, crash, assertsOn>>

\* Lines 71-73.
WriteGive ==
    /\ Running /\ wrpc = "give"
    /\ qemu_mutex' = "free"
    /\ wrpc' = "idle"
    /\ UNCHANGED <<initVars, qemu_sem, irqEnabled, hostVars, rxfifo, bufVars,
                   workerVars, spc, sarg, wire, budget, crash, assertsOn, lastHw>>

\* ------------------------------------------------------------------ loopback
\* The bytes of the hw_qemu_write calls w, in order.
RECURSIVE WireBytes(_)
WireBytes(w) ==
    IF w = << >> THEN << >>
    ELSE Head(w).bytes \o Zeros(Head(w).zeros) \o WireBytes(Tail(w))

\* The frame the application's qemu_send_data call has emitted is placed alone
\* in the empty receive buffer, for _qemu_handle_packet to decode.
Loopback ==
    /\ Running /\ spc["app"] = "return" /\ wpc = "take" /\ used = 0
    /\ LET a == protocol_rx_buffer_append(rxbuf, used, WireBytes(wire))
       IN  /\ a.status >= 0
           /\ rxbuf' = a.buf
           /\ used' = a.used
    /\ spc' = [spc EXCEPT !["app"] = "idle"]
    /\ wpc' = "decode"
    /\ UNCHANGED <<initVars, qemu_mutex, qemu_sem, irqEnabled, hostVars, rxfifo,
                   done, rv, hdr, stage, dispatched, cyc, sarg, wrpc, wire, budget,
                   crash, assertsOn, lastHw, buf_lock>>

\* ------------------------------------------------------------- specification
Next ==
    \/ QemuInitFlag \/ QemuInitHw \/ QemuInitMutex \/ QemuInitTask \/ QemuInitSem
    \/ Arrive \/ RxIsr
    \/ ThreadTake \/ ThreadRead \/ ThreadDecode \/ ThreadHandler
    \/ ThreadReplyDone \/ ThreadPost \/ ThreadCheckRv \/ ThreadIrqEnable
    \/ SendCall \/ SendReturn \/ WriteCall \/ WriteTake \/ WriteWrite \/ WriteGive
    \/ \E c \in SendCtx : SendCheck(c) \/ SendTake(c) \/ SendWrite(c) \/ SendGive(c)

Spec == Init /\ [][Next]_vars

\* The same under the scheduling FreeRTOS and the hardware give: qemu_init runs
\* to its end, a pending enabled interrupt is served, and the worker and every
\* context inside qemu_send_data or qemu_write run whenever they are not blocked.
InitStep == QemuInitFlag \/ QemuInitHw \/ QemuInitMutex \/ QemuInitTask \/ QemuInitSem
WorkerStep ==
    \/ ThreadTake \/ ThreadRead \/ ThreadDecode \/ ThreadHandler
    \/ ThreadReplyDone \/ ThreadPost \/ ThreadCheckRv \/ ThreadIrqEnable
SendStep(c) == SendCheck(c) \/ SendTake(c) \/ SendWrite(c) \/ SendGive(c)
WriteStep == WriteTake \/ WriteWrite \/ WriteGive

Fairness ==
    /\ WF_vars(InitStep)
    /\ WF_vars(RxIsr)
    /\ WF_vars(WorkerStep)
    /\ \A c \in SendCtx : WF_vars(SendStep(c))
    /\ WF_vars(SendReturn)
    /\ WF_vars(WriteStep)

\* The runs looked at under fairness: the stream during which applications and
\* handlers send, and a short frame sent twice back to back.
LiveStreams == TxStreams \cup {a \o a : a \in ShortFrames}
InitFair == Init /\ stream \in LiveStreams

SpecFair == InitFair /\ [][Next]_vars /\ Fairness

\* The send path followed by the receive path: after qemu_init, one
\* qemu_send_data call of the application, whose frame is then decoded.
RtEndpoints == {0, 7, 258, 65535}
RtPayloads == {<< >>, <<9>>, <<9, 10>>, [i \in 1..(QEMU_MAX_DATA_LEN - 3) |-> 3]}
RtArgs ==
    [endpoint : RtEndpoints, data : RtPayloads, zeros : {0}]
        \cup [endpoint : {7}, data : {<<9>>}, zeros : {U16 - 6, U16 - 5, U16 - 2}]

InitRt ==
    /\ initPc = "done"
    /\ is_qemu = 1
    /\ qemu_mutex = "free"
    /\ qemu_sem = "empty"
    /\ irqEnabled = TRUE
    /\ stream = << >>
    /\ hostPending = << >>
    /\ rxfifo = << >>
    /\ rxbuf = [i \in 1..RX_BUFFER_SIZE |-> 0]
    /\ used = 0
    /\ buf_lock = "free"
    /\ wpc = "take"
    /\ done = FALSE
    /\ rv = "none"
    /\ hdr = NoHdr
    /\ stage = "none"
    /\ dispatched = << >>
    /\ spc = [c \in SendCtx |-> IF c = "app" THEN "check" ELSE "idle"]
    /\ \E a \in RtArgs : sarg = [c \in SendCtx |-> IF c = "app" THEN a ELSE NoArg]
    /\ wrpc = "idle"
    /\ wire = << >>
    /\ budget = [app |-> 0, wr |-> 0, reply |-> MaxReplies, bursts |-> 0]
    /\ crash = "none"
    /\ assertsOn \in BOOLEAN
    /\ lastHw = NoHw
    /\ cyc = NoCyc

NextRt ==
    \/ Loopback \/ ThreadDecode \/ ThreadHandler \/ ThreadReplyDone \/ ThreadPost
    \/ \E c \in SendCtx : SendCheck(c) \/ SendTake(c) \/ SendWrite(c) \/ SendGive(c)

SpecRt == InitRt /\ [][NextRt]_vars

\* ================================================================== claims
\* Big-endian reading of two wire bytes at 1-based index i.
BE16(b, i) == b[i] * 256 + b[i + 1]

\* The payload a sound frame f carries.
PayloadIn(f) == SubSeq(f, HeaderSize + 1, HeaderSize + BE16(f, 5))

\* The payloads of a sequence of packets.
DataOf(d) == [i \in DOMAIN d |-> d[i].data]

\* The worker is parked on the wake signal and nothing is left to receive.
Quiescent ==
    /\ crash = "none" /\ initPc = "done"
    /\ hostPending = << >> /\ rxfifo = << >>
    /\ wpc = "take" /\ qemu_sem = "empty"

\* What the worker dispatches when the bytes s wait in the transport as one
\* chunk and the receive buffer is fresh: its wake cycles, run to the end.
RECURSIVE OneChunkLoop(_, _, _, _, _)
OneChunkLoop(buf, u, fifo, d, disp) ==
    LET r == hw_qemu_read(fifo, ReadChunk)
        a == ThreadAppend(buf, u, r.bytes, d)
        p == qemu_handle_packet_pre(a.buf, a.used)
        called == p.stage = "validated"
        disp2 == IF called /\ protocol_find_endpoint_handler(p.hdr.protocol) # "NULL"
                 THEN Append(disp, PacketOf(p.buf, p.hdr)) ELSE disp
        ret == IF called THEN qemu_handle_packet_post(p.used, p.hdr.len) ELSE p.rv
        c == ThreadCheck(ret, p.used, a.done)
    IN  IF called /\ assertsOn /\ p.used # p.hdr.len THEN disp
        ELSE IF ~c.done THEN OneChunkLoop(p.buf, c.used, r.rest, c.done, disp2)
        ELSE IF r.rest = << >> THEN disp2
        ELSE OneChunkLoop(p.buf, c.used, r.rest, FALSE, disp2)

OneChunkDispatch(s) ==
    OneChunkLoop([i \in 1..RX_BUFFER_SIZE |-> 0], 0, s, FALSE, << >>)

ValidStreams == ValidFrames \cup {a \o b : a \in ValidFrames, b \in ValidFrames}

\* C1: chunking transparency.  Once a stream of valid frames has been received
\* in whatever bursts and the worker is parked again, the packets dispatched are
\* those dispatched when the same bytes arrive as one chunk.
C1_ChunkingTransparency ==
    (Quiescent /\ stream \in ValidStreams) => dispatched = OneChunkDispatch(stream)

\* C2: when the first read of a wake cycle puts two valid frames back to back
\* into the empty receive buffer, the worker has dispatched both packets, in
\* arrival order, by the time it re-enables the interrupt.
C2_TwoFramesOneRead ==
    \A a \in ValidFrames, b \in ValidFrames :
        (crash = "none" /\ wpc = "irq" /\ cyc.used0 = 0 /\ cyc.first = a \o b
            /\ Len(a \o b) <= RX_BUFFER_SIZE)
            => DataOf(SubSeqFrom(dispatched, cyc.disp0 + 1))
                   = <<PayloadIn(a), PayloadIn(b)>>

\* The piece qemu_send_data writes before piece p.
PrevPiece(p) == SendPieces[(CHOOSE i \in 2..5 : SendPieces[i] = p) - 1]

\* C4: atomic emission.  On the transport every piece of a qemu_send_data frame
\* after its header directly follows the previous piece of the same frame, and
\* every piece before its footer is directly followed by the next one: no
\* other sender's bytes lie within a frame.
C4_AtomicEmission ==
    \A j \in 1..Len(wire) :
        /\ wire[j].piece \in {"len", "endpoint", "data", "footer"} =>
              /\ j > 1
              /\ wire[j - 1].by = wire[j].by
              /\ wire[j - 1].piece = PrevPiece(wire[j].piece)
        /\ (wire[j].piece \in {"header", "len", "endpoint", "data"} /\ j < Len(wire)) =>
              /\ wire[j + 1].by = wire[j].by
              /\ wire[j + 1].piece = NextPiece(wire[j].piece)

\* C4 witness: a whole frame of the application is on the transport, next to
\* what a qemu_write caller and a replying handler wrote.
C4_Witness ==
    /\ \E j \in 1..Len(wire) : wire[j].by = "app" /\ wire[j].piece = "footer"
    /\ \E j \in 1..Len(wire) : wire[j].by = "wr"
    /\ \E j \in 1..Len(wire) : wire[j].by = "worker" /\ wire[j].piece = "footer"

\* C5: the worker never reads the transport while another context holds the
\* transport mutex in the middle of writing a frame to it, its header written
\* and its footer not yet.
C5_ReadUnderMutex ==
    lastHw.ctx = "worker" =>
        ~(lastHw.holder = "app" /\ lastHw.at \in {"len", "endpoint", "data", "footer"})

\* The first u bytes of the buffer are a non-empty strict prefix of a valid frame.
StrictPrefix(buf, u) ==
    /\ u >= 1
    /\ \E f \in ValidFrames : u < Len(f) /\ \A i \in 1..u : buf[i] = f[i]

\* C6: a decoder invocation on a non-empty strict prefix of a valid frame
\* returns NeedMoreData, dispatches nothing and leaves buffer and used-length
\* as they are, and the worker does not reset the buffer afterwards.
C6_PrefixNeedsMoreData ==
    [][/\ (crash = "none" /\ wpc = "decode" /\ wpc' # "decode"
              /\ StrictPrefix(rxbuf, used))
          => (rv' = PACKET_MORE_DATA_REQD /\ used' = used /\ rxbuf' = rxbuf
                 /\ dispatched' = dispatched)
       /\ (wpc = "check" /\ rv = PACKET_MORE_DATA_REQD) => used' = used]_vars

\* A complete frame with a sound header and a damaged footer is at the front.
BadFooterAtFront(buf, u) ==
    /\ BE16(buf, 1) = QEMU_HEADER_SIGNATURE
    /\ BE16(buf, 5) <= QEMU_MAX_DATA_LEN
    /\ u >= HeaderSize + BE16(buf, 5) + FooterSize
    /\ BE16(buf, HeaderSize + BE16(buf, 5) + 1) # QEMU_FOOTER_SIGNATURE

\* C7: on a complete frame with a damaged footer the decoder returns Invalid
\* without calling a handler, and the worker resets the buffer (used-length 0)
\* before it waits again.
C7_BadFooterRejected ==
    [][/\ (wpc = "decode" /\ wpc' # "decode" /\ BadFooterAtFront(rxbuf, used))
          => (rv' = PACKET_INVALID /\ stage' = "bad_footer" /\ wpc' = "check"
                 /\ dispatched' = dispatched)
       /\ (stage = "bad_footer" /\ wpc' # wpc)
          => (dispatched' = dispatched /\ used' = 0 /\ wpc' \in {"irq", "take"})]_vars

\* C7 witness: the worker is about to re-enable the interrupt after a frame
\* with a damaged footer, the buffer reset.
C7_Witness ==
    crash = "none" /\ stage = "bad_footer" /\ wpc = "irq" /\ used = 0 /\ dispatched = << >>

\* C8: a header with a sound signature and a declared length above the maximum
\* is rejected as Invalid before the footer is read and before the handler is
\* looked up or called, whatever the used-length; a declared length equal to
\* the maximum is not rejected for its size.
C8_OversizeRejectedFirst ==
    [][(wpc = "decode" /\ wpc' # "decode" /\ BE16(rxbuf, 1) = QEMU_HEADER_SIGNATURE)
          => LET r == qemu_handle_packet_pre(rxbuf, used)
             IN  /\ BE16(rxbuf, 5) > QEMU_MAX_DATA_LEN
                    => (rv' = PACKET_INVALID /\ stage' = "bad_size" /\ wpc' = "check"
                           /\ ~r.footerRead /\ ~r.lookedUp
                           /\ dispatched' = dispatched)
                 /\ BE16(rxbuf, 5) = QEMU_MAX_DATA_LEN
                    => (stage' # "bad_size"
                           /\ (used < HeaderSize + QEMU_MAX_DATA_LEN + FooterSize
                                  => rv' = PACKET_MORE_DATA_REQD))]_vars

\* C8 witness: an oversize header was rejected while fewer bytes than a header
\* were in use.
C8_Witness ==
    stage = "bad_size" /\ wpc = "check" /\ used > 0 /\ used < HeaderSize

\* C10: while is_qemu is 0 a qemu_send_data call only returns: no step of it
\* writes to the transport, touches the mutex or changes any shared state.
C10_InactiveNoOp ==
    [][(is_qemu = 0 /\ spc' # spc)
          => /\ spc["app"] = "check" => spc'["app"] = "return"
             /\ spc'["app"] \in {"idle", "check", "return"}
             /\ UNCHANGED <<is_qemu, qemu_mutex, qemu_sem, irqEnabled, wire, lastHw,
                            crash, rxfifo, bufVars, workerVars>>]_vars

\* C10 witness: a call made while is_qemu is 0 has come back.
C10_Witness ==
    is_qemu = 0 /\ spc["app"] = "return" /\ wire = << >> /\ qemu_mutex = "NULL"

\* The application's frame is entirely on the transport.
AppFrameSent ==
    Len(wire) >= 5 /\ wire[5].by = "app" /\ wire[5].piece = "footer"

\* C9: for every endpoint and every 16-bit payload length, qemu_send_data
\* writes, big-endian and in this order: header signature, SPP tag, a length
\* field equal to payload length + 4, the payload length, the endpoint, the
\* payload and the footer signature.
C9_SendFormat ==
    AppFrameSent =>
        LET b == WireBytes(SubSeq(wire, 1, 5))
            n == ArgLen(sarg["app"])
        IN  /\ Len(b) = HeaderSize + 4 + n + FooterSize
            /\ BE16(b, 1) = QEMU_HEADER_SIGNATURE
            /\ BE16(b, 3) = QemuProtocol_SPP
            /\ BE16(b, 5) = n + 4
            /\ BE16(b, 7) = n
            /\ BE16(b, 9) = sarg["app"].endpoint
            /\ SubSeq(b, HeaderSize + 5, HeaderSize + 4 + n) = ArgData(sarg["app"])
            /\ BE16(b, HeaderSize + 5 + n) = QEMU_FOOTER_SIGNATURE

\* The looped-back frame has been through _qemu_handle_packet.
RtDecoded == spc["app"] = "idle" /\ wpc = "check"

\* C3 as stated: the looped-back frame decodes as Processed into a packet
\* whose payload is P and whose endpoint is E.
C3_RoundTrip ==
    RtDecoded =>
        /\ rv = PACKET_PROCESSED
        /\ Len(dispatched) = 1
        /\ dispatched[1].data = ArgData(sarg["app"])
        /\ dispatched[1].endpoint = sarg["app"].endpoint

\* C3 amended: for a payload P of at most QEMU_MAX_DATA_LEN - 4 bytes the
\* looped-back frame decodes as Processed into one packet of protocol SPP and
\* endpoint 0 whose data is the big-endian length of P, the big-endian
\* endpoint E and then P.
C3_RoundTripFramed ==
    (RtDecoded /\ ArgLen(sarg["app"]) + 4 <= QEMU_MAX_DATA_LEN) =>
        LET n == ArgLen(sarg["app"])
            e == sarg["app"].endpoint
        IN  /\ rv = PACKET_PROCESSED
            /\ Len(dispatched) = 1
            /\ dispatched[1].protocol = QemuProtocol_SPP
            /\ dispatched[1].endpoint = 0
            /\ dispatched[1].data
                   = <<n \div 256, n % 256, e \div 256, e % 256>> \o ArgData(sarg["app"])

\* C3 witness: a two-byte payload sent to endpoint 258 has been decoded.
C3_Witness ==
    /\ RtDecoded /\ rv = PACKET_PROCESSED
    /\ sarg["app"] = [endpoint |-> 258, data |-> <<9, 10>>, zeros |-> 0]

\* C11: a complete frame with sound header and footer whose protocol has no
\* registered handler is not fatal: the step that calls the handler leaves the
\* firmware running as it was, the frame consumed, and the worker goes on to
\* the return value.
C11_UnknownProtocolNonFatal ==
    [][(crash = "none" /\ wpc = "handler"
           /\ protocol_find_endpoint_handler(hdr.protocol) = "NULL")
          => (crash' = "none" /\ wpc' \in {"handler", "post"})]_vars

\* C12: when the worker is parked again after a wake cycle in which the one
\* frame received was dispatched, no byte of that frame is left in the buffer:
\* used-length is 0 and the next header will start at index 0.
C12_BufferHoldsUnconsumed ==
    (Quiescent /\ stream \in ValidFrames /\ Len(dispatched) = 1) => used = 0

\* C13: after the compaction the used-length equals the payload length of the
\* header, for every sequence of reads.
C13_AssertHolds ==
    (crash \in {"none", "assert"} /\ stage = "validated") => used = hdr.len

\* The worker's read at line 151 returns bytes the receive buffer cannot take.
AppendFails ==
    LET r == hw_qemu_read(rxfifo, ReadChunk)
    IN  /\ Len(r.bytes) # 0
        /\ protocol_rx_buffer_append(rxbuf, used, r.bytes).status < 0

\* C14: when the append of a chunk fails the worker resets the buffer and
\* abandons the iteration: it goes on to re-enable the interrupt without
\* invoking the decoder, nothing is dispatched and used-length is 0.
C14_AppendFailureAbandons ==
    [][(crash = "none" /\ wpc = "read" /\ wpc' # "read" /\ AppendFails)
          => (wpc' \in {"irq", "take"} /\ used' = 0 /\ dispatched' = dispatched)]_vars

\* The buffer memory buf with everything beyond the used-length u cleared.
Masked(buf, u) == [i \in DOMAIN buf |-> IF i <= u THEN buf[i] ELSE 0]

\* C16: the decode outcome depends on the used-length and the bytes below it
\* only: whenever the decoder is invoked, it returns what it returns on the
\* buffer with the same used-length and the same bytes below it and cleared
\* memory beyond.
C16_DecoderPure ==
    (crash = "none" /\ wpc = "decode")
        => qemu_handle_packet_pre(rxbuf, used).rv
               = qemu_handle_packet_pre(Masked(rxbuf, used), used).rv

\* C19: a single valid frame arriving on the empty buffer, in whatever chunks,
\* has been dispatched exactly once by the time all its bytes were read and
\* the worker is parked again.
C19_FrameEventuallyDispatched ==
    (Quiescent /\ stream \in ValidFrames)
        => (Len(dispatched) = 1 /\ dispatched[1].data = PayloadIn(stream))

\* The worker executes xSemaphoreTake(_qemu_sem) in this step.
WorkerTakesSem == wpc = "take" /\ (wpc' = "read" \/ crash' = "null_sem_take")

\* qemu_rx_started_isr runs in this step.
IsrGivesSem == irqEnabled /\ ~irqEnabled'

\* C20: start-up ordering.  _qemu_sem exists whenever the worker takes it and
\* whenever the interrupt posts it, and a posted wake stays posted until the
\* worker takes it.
C20_SemCreatedBeforeUse ==
    [][/\ (WorkerTakesSem \/ IsrGivesSem) => qemu_sem # "NULL"
       /\ (qemu_sem = "given" /\ qemu_sem' # "given") => WorkerTakesSem]_vars

\* The first u bytes of the buffer are one complete frame for a registered
\* protocol, with sound signatures and a payload of at most the maximum size.
SoleFrame(buf, u) ==
    /\ u >= HeaderSize + FooterSize
    /\ BE16(buf, 1) = QEMU_HEADER_SIGNATURE
    /\ protocol_find_endpoint_handler(BE16(buf, 3)) # "NULL"
    /\ BE16(buf, 5) <= QEMU_MAX_DATA_LEN
    /\ u = HeaderSize + BE16(buf, 5) + FooterSize
    /\ BE16(buf, u - 1) = QEMU_FOOTER_SIGNATURE

\* C18: when one valid frame with a payload of L bytes, 0 <= L <= maximum, is
\* all the receive buffer holds, the decoder validates it and leaves the L
\* payload bytes at the front with used-length L; the handler is then called
\* once with a packet of exactly these L bytes, and the decoder returns
\* Processed with the buffer as it was at the call.
C18_SoleFrameProcessed ==
    [][/\ (wpc = "decode" /\ wpc' # "decode" /\ SoleFrame(rxbuf, used))
          => (/\ stage' = "validated" /\ wpc' = "handler" /\ crash' = crash
              /\ hdr'.len = BE16(rxbuf, 5)
              /\ used' = hdr'.len
              /\ SubSeq(rxbuf', 1, used') = PayloadIn(rxbuf)
              /\ dispatched' = dispatched)
       /\ (wpc = "handler" /\ wpc' # "handler" /\ used = hdr.len
              /\ protocol_find_endpoint_handler(hdr.protocol) # "NULL")
          => (/\ Len(dispatched') = Len(dispatched) + 1
              /\ dispatched'[Len(dispatched')].data = SubSeq(rxbuf, 1, hdr.len)
              /\ Len(dispatched'[Len(dispatched')].data) = hdr.len
              /\ UNCHANGED bufVars)
       /\ (wpc \in {"reply", "post"} /\ used = hdr.len)
          => (/\ dispatched' = dispatched
              /\ UNCHANGED bufVars
              /\ wpc' = "check" => rv' = PACKET_PROCESSED)]_vars

\* C18 witness: a frame with a payload of the maximum size, alone in the
\* buffer, has been processed and its payload is at the front.
C18_Witness ==
    /\ crash = "none" /\ wpc = "check" /\ rv = PACKET_PROCESSED
    /\ hdr.len = QEMU_MAX_DATA_LEN /\ used = hdr.len
    /\ Len(dispatched) = 1 /\ dispatched[1].data = MaxPayload
    /\ SubSeq(rxbuf, 1, used) = MaxPayload

\* The worker is inside a wake cycle: past the take, not yet back at it.
InCycle == wpc \in {"read", "decode", "handler", "reply", "post", "check", "irq"}

\* C15: every wake cycle ends.  The inner loop goes round again only on
\* BufferHasMoreData and leaves on Processed, NeedMoreData and Invalid; the
\* interrupt is re-enabled only by the step that leaves the cycle for the
\* wait; and a worker inside a cycle gets back to the wait.
C15_WakeCycleTerminates ==
    /\ [][/\ (wpc = "check" /\ wpc' = "read") => rv = PACKET_BUFFER_HAS_DATA
          /\ (wpc = "check" /\ wpc' # "check"
                 /\ rv \in {PACKET_PROCESSED, PACKET_MORE_DATA_REQD, PACKET_INVALID})
             => wpc' = "irq"
          /\ (wpc # "none" /\ ~irqEnabled /\ irqEnabled')
             => (wpc = "irq" /\ wpc' = "take")]_vars
    /\ (InCycle /\ crash = "none" /\ initPc = "done") ~> (wpc = "take")

\* C17: a reply sent from inside a handler does not deadlock the worker on
\* itself.  When the handler is called, and all through its qemu_send_data
\* call, the worker holds neither the transport mutex, unless that call took
\* it, nor the receive-buffer lock; the call gets the mutex, writes its frame
\* and returns, and the worker goes on to the return value of the decoder.
C17_ReplyNoSelfDeadlock ==
    /\ [](wpc = "handler" => (qemu_mutex # "worker" /\ buf_lock = "free"))
    /\ []((wpc = "reply" /\ spc["worker"] \in {"check", "take"})
             => (qemu_mutex # "worker" /\ buf_lock = "free"))
    /\ (wpc = "reply") ~> (wpc = "post" /\ spc["worker"] = "idle"
                              /\ qemu_mutex # "worker")

\* C17 witness: the handler's reply is entirely on the transport, the mutex
\* given back, and the worker is about to compute the decoder's return value.
C17_Witness ==
    /\ crash = "none" /\ wpc = "post" /\ qemu_mutex # "worker"
    /\ \E j \in 1..Len(wire) : wire[j].by = "worker" /\ wire[j].piece = "footer"

====
